---- MODULE Spec2Model ----
(***************************************************************************)
(* Model of scripts/process_scene_queue.py: the persistent worker's        *)
(* command loop (main), the description pipeline (process_file) and the    *)
(* read-merge-write metadata accessor (update_metadata), together with one *)
(* external process that patches the shared metadata file.                 *)
(*                                                                         *)
(* A text line is a sequence of tokens; " " is whitespace and "|" is the   *)
(* field separator, every other token is a run of ordinary characters.     *)
(* A JSON document is a function from its keys to their values.            *)
(***************************************************************************)
EXTENDS Integers, Sequences, FiniteSets, TLC

(* ---------------------------- bounds ----------------------------------- *)
MaxCmds == 2        \* lines on stdin in the protocol scenarios
MaxScenes == 2      \* scenes in a metadata document
MaxExtWrites == 1   \* writes of the external process
MaxDetected == 1    \* scenes the detector adapter finds in a video

(* ---------------------------- text ------------------------------------- *)
RECURSIVE LStrip(_)
LStrip(s) == IF s # <<>> /\ Head(s) = " " THEN LStrip(Tail(s)) ELSE s

RECURSIVE RStrip(_)
RStrip(s) ==
    IF s # <<>> /\ s[Len(s)] = " " THEN RStrip(SubSeq(s, 1, Len(s) - 1)) ELSE s

\* str.strip()
Strip(s) == RStrip(LStrip(s))

\* str.split("|"): the fields between the separators, at least one
RECURSIVE SplitFrom(_, _, _)
SplitFrom(s, k, cur) ==
    IF k > Len(s) THEN <<cur>>
    ELSE IF s[k] = "|" THEN <<cur>> \o SplitFrom(s, k + 1, <<>>)
    ELSE SplitFrom(s, k + 1, Append(cur, s[k]))

Split(s) == SplitFrom(s, 1, <<>>)

\* line.startswith("DETECT|")
StartsWithDetect(s) == Len(s) >= 2 /\ s[1] = "DETECT" /\ s[2] = "|"

\* mutant: the empty line is not taken for a terminator
IsTerminatorExitOnly(s) == s = <<"EXIT">>

\* not line or line == "EXIT"
IsTerminator(s) == s = <<>> \/ s = <<"EXIT">>

(* ---------------------------- documents -------------------------------- *)
EmptyDoc == [k \in {} |-> 0]

\* dict.update: shallow overlay of U's keys onto D
Overlay(D, U) ==
    [k \in (DOMAIN D) \cup (DOMAIN U) |-> IF k \in DOMAIN U THEN U[k] ELSE D[k]]

\* mutant: the check for an existing description is lost
HasDescriptionNever(scene) == FALSE

\* dict.get(key) truthiness for a string value: present and not empty
HasDescription(scene) == "description" \in DOMAIN scene /\ scene["description"] # ""

\* Python round() of (num / den) * 100: ties go to the even integer
Round100(num, den) ==
    LET q == (100 * num) \div den
        r == (100 * num) % den
    IN  IF 2 * r < den THEN q
        ELSE IF 2 * r > den THEN q + 1
        ELSE IF q % 2 = 0 THEN q ELSE q + 1

(* ---------------------------- environment ------------------------------ *)
MetaPath == <<"meta.json">>      \* a metadata file that exists and parses
BadPath == <<"bad.json">>        \* a file that exists and is not JSON
GonePath == <<"gone.json">>      \* no such file

ExistingImages == {"ok.jpg"}     \* screenshot files present next to MetaPath
OpenableVideos == {<<"v.mp4">>}  \* videos cv2.VideoCapture can open

File(kind, doc) == [kind |-> kind, doc |-> doc]

SceneTemplates ==
    { [timecode |-> "00:00:00.000", screenshotPath |-> "ok.jpg"],
      [timecode |-> "00:00:00.000", screenshotPath |-> "nofile.jpg"],
      [timecode |-> "00:00:00.000"],
      [timecode |-> "00:00:00.000", screenshotPath |-> "ok.jpg",
       description |-> "old"] }

SeqUpTo(S, n) == UNION { [1..m -> S] : m \in 0..n }

\* documents as the upload side leaves them: scenes and an unrelated field
InitialDocs ==
    { [uploadId |-> "job1", scenes |-> ss] : ss \in SeqUpTo(SceneTemplates, MaxScenes) }
    \cup { [uploadId |-> "job1"] }

SmallDocs ==
    { [uploadId |-> "job1",
       scenes |-> << [timecode |-> "00:00:00.000", screenshotPath |-> "ok.jpg"] >>] }

\* Lines of stdin as read, before strip(); " " alone is a line holding only its
\* newline. A line is a path, a DETECT line of 3, 4 or 5 fields, DETECT without a
\* separator, EXIT, or blank.
Lines ==
    { <<" ">>,
      <<" ", "EXIT">>,
      <<"DETECT", "|", "v.mp4", "|", "job1", "|", "out">>,
      <<"DETECT", "|", "bad.mp4", "|", "job1", "|", "out">>,
      <<"DETECT", "|", "v.mp4", "|", "job1">>,
      <<"DETECT", "|", "v.mp4", "|", "job1", "|", "out", "|", "x">>,
      <<"DETECT">>,
      MetaPath \o <<" ">>,
      BadPath,
      GonePath }

\* the same metadata path submitted once or twice
MetaRuns == { <<MetaPath>>, <<MetaPath, MetaPath>> }

\* The scenarios. "protocol": any lines on stdin, either detector setting, the
\* one-scene document, the worker the only writer. "pipeline": the metadata path
\* submitted once or twice, any document, the other writer active.
Scenario(docs, inputs, detectors, budget) ==
    [docs |-> docs, inputs |-> inputs, detectors |-> detectors, budget |-> budget]

Scenarios ==
    { Scenario(SmallDocs, SeqUpTo(Lines, MaxCmds), {"transnetv2", "pyscenedetect"}, 0),
      Scenario(InitialDocs, MetaRuns, {"pyscenedetect"}, MaxExtWrites) }

\* history of an update_metadata call: the file D at its read, its arguments,
\* the file out it wrote, and the file prev the call before it had written
CallRecord(n, D, upd, out, prev) ==
    [n |-> n, D |-> D, upd |-> upd, out |-> out, prev |-> prev]
NoCall == CallRecord(0, EmptyDoc, EmptyDoc, EmptyDoc, EmptyDoc)

(* ---------------------------- state ------------------------------------ *)
VARIABLES
    pc,              \* position of the worker in main / process_file
    SCENE_DETECTOR,  \* config value read at import
    transnet_model,  \* "model" or "None"
    vlm_model,       \* "model" once load_vlm_model has returned, else "None"
    stdin, pos,      \* the control input and the index of the next line
    line,            \* the stripped line being handled
    stdout,          \* reply lines written so far
    fs,              \* metadata files: path -> File
    scenes, i,       \* process_file locals: the scene list and the loop index
    updates, ret,    \* update_metadata: keyword arguments and where it returns
    current,         \* update_metadata local: the document read
    loaded,          \* process_file local: the document as loaded (metadata)
    result,          \* scenes returned to the DETECT branch
    extBudget,       \* writes the external process makes in this scenario
    extCount,        \* writes the external process has made
    \* history, not read by the program
    diskAtCall,      \* the file at the read of the update_metadata call in progress
    lastCall,        \* the last update_metadata call that has written
    answered,        \* for each line of stdout, the stdin position it answers (0: none)
    trace,           \* writes and model invocations of the current pipeline run
    runs,            \* one record per finished process_file call
    adapterCalls,    \* stdin positions for which detect_scenes_transnet ran
    adapterRaised,   \* those of them for which it raised
    transnetLoads,   \* calls of load_transnet_model
    extInside,       \* an external write fell between a read and its write
    extLast          \* last value the external process wrote (0: none)

vars == <<pc, SCENE_DETECTOR, transnet_model, vlm_model, stdin, pos, line, stdout,
          answered, fs, scenes, i, updates, ret, current, loaded, result, extBudget,
          extCount, diskAtCall, lastCall, trace, runs, adapterCalls, adapterRaised,
          transnetLoads,
          extInside, extLast>>

Init ==
    /\ pc = "start"
    /\ transnet_model = "None"
    /\ vlm_model = "None"
    /\ answered = <<>>
    /\ \E sc \in Scenarios :
          /\ \E doc \in sc.docs :
                fs = [p \in {MetaPath, BadPath} |->
                         IF p = MetaPath THEN File("json", doc)
                         ELSE File("garbage", EmptyDoc)]
          /\ stdin \in sc.inputs
          /\ SCENE_DETECTOR \in sc.detectors
          /\ extBudget = sc.budget
    /\ pos = 1
    /\ line = <<>>
    /\ stdout = <<>>
    /\ scenes = <<>>
    /\ i = 0
    /\ updates = EmptyDoc
    /\ ret = "none"
    /\ current = EmptyDoc
    /\ loaded = EmptyDoc
    /\ result = <<>>
    /\ extCount = 0
    /\ diskAtCall = EmptyDoc
    /\ lastCall = NoCall
    /\ trace = <<>>
    /\ runs = <<>>
    /\ adapterCalls = {}
    /\ adapterRaised = {}
    /\ transnetLoads = 0
    /\ extInside = FALSE
    /\ extLast = 0

(* ---------------------------- replies ---------------------------------- *)
Ready == <<"READY">>

RECURSIVE Flatten(_)
Flatten(ss) == IF ss = <<>> THEN <<>> ELSE Head(ss) \o Flatten(Tail(ss))

\* json.dumps of the scene list returned by the detector adapter
JsonDumps(ss) ==
    IF ss = <<>> THEN <<"[]">>
    ELSE <<"[">> \o Flatten([k \in 1..Len(ss) |-> ss[k].screenshotPath]) \o <<"]">>

DetectDone(ss) == <<"DETECT_DONE|">> \o JsonDumps(ss)

Done(path) == <<"DONE:">> \o path

(* ---------------------------- startup ---------------------------------- *)
pfVars == <<scenes, i, updates, ret, current, loaded, diskAtCall, lastCall, trace,
           runs>>
extVars == <<extBudget, extCount, extInside, extLast>>
ioVars == <<stdin, pos, line, stdout, answered>>

\* main, lines 317-322: the detector is loaded only when configured; the load
\* yields a model, None (library missing) or an exception that ends the process
LoadTransnet ==
    /\ pc = "start"
    /\ IF SCENE_DETECTOR = "transnetv2"
       THEN /\ transnetLoads' = transnetLoads + 1
            /\ \E r \in {"model", "None", "raise"} :
                  /\ transnet_model' = IF r = "model" THEN "model" ELSE "None"
                  /\ pc' = IF r = "raise" THEN "crashed" ELSE "load_vlm"
       ELSE /\ transnetLoads' = transnetLoads
            /\ transnet_model' = "None"
            /\ pc' = "load_vlm"
    /\ UNCHANGED <<SCENE_DETECTOR, vlm_model, ioVars, fs, pfVars, result, extVars,
                   adapterCalls, adapterRaised>>

\* mutant: a failed load is swallowed and startup goes on
AfterVlmLoadSwallowed(ok) == "print_ready"

\* where main continues after load_vlm_model returned (ok) or raised
AfterVlmLoad(ok) == IF ok THEN "print_ready" ELSE "crashed"

\* main, line 325
LoadVlm ==
    /\ pc = "load_vlm"
    /\ \E ok \in BOOLEAN :
          /\ vlm_model' = IF ok THEN "model" ELSE "None"
          /\ pc' = AfterVlmLoad(ok)
    /\ UNCHANGED <<SCENE_DETECTOR, transnet_model, ioVars, fs, pfVars, result, extVars,
                   adapterCalls, adapterRaised, transnetLoads>>

\* main, line 328
PrintReady ==
    /\ pc = "print_ready"
    /\ stdout' = Append(stdout, Ready)
    /\ answered' = Append(answered, 0)
    /\ pc' = "read"
    /\ UNCHANGED <<SCENE_DETECTOR, transnet_model, vlm_model, stdin, pos, line, fs,
                   pfVars, result, extVars, adapterCalls, adapterRaised, transnetLoads>>

(* ---------------------------- command loop ----------------------------- *)
\* main, lines 331-332: next line of stdin, stripped; end of input ends the loop
ReadLine ==
    /\ pc = "read"
    /\ IF pos > Len(stdin)
       THEN /\ pc' = "exited"
            /\ UNCHANGED <<pos, line>>
       ELSE /\ line' = Strip(stdin[pos])
            /\ pos' = pos + 1
            /\ pc' = "dispatch"
    /\ UNCHANGED <<SCENE_DETECTOR, transnet_model, vlm_model, stdin, stdout, answered,
                   fs, pfVars, result, extVars, adapterCalls, adapterRaised, transnetLoads>>

\* main, lines 333-334
Terminate ==
    /\ pc = "dispatch"
    /\ IsTerminator(line)
    /\ pc' = "exited"
    /\ UNCHANGED <<SCENE_DETECTOR, transnet_model, vlm_model, ioVars, fs, pfVars,
                   result, extVars, adapterCalls, adapterRaised, transnetLoads>>

\* mutant: only a command with too few fields is rejected
MalformedTooFew(parts) == Len(parts) < 4

\* len(parts) != 4
Malformed(parts) == Len(parts) # 4

\* main, lines 336-342
DetectMalformed ==
    /\ pc = "dispatch"
    /\ ~IsTerminator(line)
    /\ StartsWithDetect(line)
    /\ Malformed(Split(line))
    /\ stdout' = Append(stdout, DetectDone(<<>>))
    /\ answered' = Append(answered, pos - 1)
    /\ pc' = "read"
    /\ UNCHANGED <<SCENE_DETECTOR, transnet_model, vlm_model, stdin, pos, line, fs,
                   pfVars, result, extVars, adapterCalls, adapterRaised, transnetLoads>>

SceneNames == <<"Scene-001-01.jpg", "Scene-002-01.jpg", "Scene-003-01.jpg">>

\* lines 185-189: the record of the k-th detected scene
DetectedScene(upload_id, k) ==
    [timecode |-> "00:00:00.000",
     screenshotPath |-> <<"/uploads/scenes/">> \o upload_id \o <<"/", SceneNames[k]>>]

Raised == [raised |-> TRUE, scenes |-> <<>>]
Returned(ss) == [raised |-> FALSE, scenes |-> ss]

\* mutant: the isOpened() check is missing
detect_scenes_unchecked(video_path, upload_id, output_dir, fault, n) ==
    IF fault = "makedirs" THEN Raised
    ELSE IF n = 0 THEN Returned(<<>>)
    ELSE IF fault = "inference" THEN Raised
    ELSE Returned([k \in 1..n |-> DetectedScene(upload_id, k)])

\* detect_scenes_transnet: fault names the library call that raises ("none":
\* no call does), n the number of scenes the detector finds (0: no frame decoded)
detect_scenes_transnet(video_path, upload_id, output_dir, fault, n) ==
    IF fault = "makedirs" THEN Raised
    ELSE IF video_path \notin OpenableVideos THEN Returned(<<>>)
    ELSE IF n = 0 THEN Returned(<<>>)
    ELSE IF fault = "inference" THEN Raised
    ELSE Returned([k \in 1..n |-> DetectedScene(upload_id, k)])

\* main, lines 353-355: an exception of the adapter becomes an empty list
ScenesOrEmpty(r) == IF r.raised THEN <<>> ELSE r.scenes

\* mutant: the adapter is called whether or not the detector was loaded
DetectorAssumed(m) == TRUE

\* main, line 348: transnet_model is not None
DetectorAvailable(m) == m # "None"

\* main, lines 344-355
DetectCommand ==
    /\ pc = "dispatch"
    /\ ~IsTerminator(line)
    /\ StartsWithDetect(line)
    /\ ~Malformed(Split(line))
    /\ LET parts == Split(line) IN
       IF DetectorAvailable(transnet_model)
       THEN /\ adapterCalls' = adapterCalls \cup {pos - 1}
            /\ \E fault \in {"none", "makedirs", "inference"}, n \in 0..MaxDetected :
                  LET r == detect_scenes_transnet(parts[2], parts[3], parts[4], fault, n)
                  IN  /\ result' = ScenesOrEmpty(r)
                      /\ adapterRaised' =
                             IF r.raised THEN adapterRaised \cup {pos - 1} ELSE adapterRaised
       ELSE /\ adapterCalls' = adapterCalls
            /\ adapterRaised' = adapterRaised
            /\ result' = <<>>
    /\ pc' = "detect_reply"
    /\ UNCHANGED <<SCENE_DETECTOR, transnet_model, vlm_model, ioVars, fs, pfVars,
                   extVars, transnetLoads>>

\* main, line 357
DetectReply ==
    /\ pc = "detect_reply"
    /\ stdout' = Append(stdout, DetectDone(result))
    /\ answered' = Append(answered, pos - 1)
    /\ pc' = "read"
    /\ UNCHANGED <<SCENE_DETECTOR, transnet_model, vlm_model, stdin, pos, line, fs,
                   pfVars, result, extVars, adapterCalls, adapterRaised, transnetLoads>>

\* main, lines 358-362: any other line is a metadata path
DescribeCommand ==
    /\ pc = "dispatch"
    /\ ~IsTerminator(line)
    /\ ~StartsWithDetect(line)
    /\ pc' = "pf_start"
    /\ UNCHANGED <<SCENE_DETECTOR, transnet_model, vlm_model, ioVars, fs, pfVars,
                   result, extVars, adapterCalls, adapterRaised, transnetLoads>>

\* main, line 366
DoneReply ==
    /\ pc = "done_reply"
    /\ stdout' = Append(stdout, Done(line))
    /\ answered' = Append(answered, pos - 1)
    /\ pc' = "read"
    /\ UNCHANGED <<SCENE_DETECTOR, transnet_model, vlm_model, stdin, pos, line, fs,
                   pfVars, result, extVars, adapterCalls, adapterRaised, transnetLoads>>

(* ---------------------------- process_file ----------------------------- *)
restVars == <<SCENE_DETECTOR, transnet_model, vlm_model, ioVars, result, adapterCalls,
              adapterRaised, transnetLoads>>

\* history: one record per process_file call that has ended
RunRecord(outcome, doc) ==
    [outcome |-> outcome, start |-> loaded, final |-> doc, trace |-> trace,
     ext |-> extCount]

\* mutant: a failed run leaves the loop waiting, the next line is never read
AfterProcessFileStuck(outcome) ==
    IF outcome \in {"missing", "raised"} THEN "stuck" ELSE "done_reply"

\* mutant: an exception of process_file is not caught and ends the process
AfterProcessFileUncaught(outcome) ==
    IF outcome = "raised" THEN "crashed" ELSE "done_reply"

\* mutant: the loop reads the next line without writing the reply
AfterProcessFileNoReply(outcome) == "read"

\* main, lines 361-366: process_file returned or raised; either way the reply follows
AfterProcessFile(outcome) == "done_reply"

\* Path.exists()
Exists(path) == path \in DOMAIN fs

\* metadata.get('scenes', [])
GetScenes(doc) == IF "scenes" \in DOMAIN doc THEN doc["scenes"] ELSE <<>>

\* lines 250-252: the file is missing
PfMissing ==
    /\ pc = "pf_start"
    /\ ~Exists(line)
    /\ runs' = Append(runs, [outcome |-> "missing", start |-> EmptyDoc,
                             final |-> EmptyDoc, trace |-> <<>>, ext |-> extCount])
    /\ pc' = AfterProcessFile("missing")
    /\ UNCHANGED <<restVars, fs, scenes, i, updates, ret, current, loaded, diskAtCall,
                   lastCall, trace, extVars>>

\* lines 255-256: json.load raises on a file that is not JSON; main catches it
PfUnparsable ==
    /\ pc = "pf_start"
    /\ Exists(line)
    /\ fs[line].kind # "json"
    /\ runs' = Append(runs, [outcome |-> "raised", start |-> EmptyDoc,
                             final |-> EmptyDoc, trace |-> <<>>, ext |-> extCount])
    /\ pc' = AfterProcessFile("raised")
    /\ UNCHANGED <<restVars, fs, scenes, i, updates, ret, current, loaded, diskAtCall,
                   lastCall, trace, extVars>>

\* mutant: an empty scene list is processed like any other
NoScenesIgnored(ss) == FALSE

\* line 260: not scenes
NoScenes(ss) == ss = <<>>

\* lines 255-265: load the document; return when there is no scene
PfLoad ==
    /\ pc = "pf_start"
    /\ Exists(line)
    /\ fs[line].kind = "json"
    /\ LET metadata == fs[line].doc IN
          /\ loaded' = metadata
          /\ scenes' = GetScenes(metadata)
          /\ trace' = <<>>
          /\ i' = 0
          /\ IF NoScenes(GetScenes(metadata))
             THEN /\ runs' = Append(runs, [outcome |-> "noscenes", start |-> metadata,
                                           final |-> metadata, trace |-> <<>>,
                                           ext |-> extCount])
                  /\ pc' = AfterProcessFile("noscenes")
             ELSE /\ runs' = runs
                  /\ pc' = "pf_loop"
    /\ UNCHANGED <<restVars, fs, updates, ret, current, diskAtCall, lastCall, extVars>>

\* mutant: the loop stops one scene early
LoopDoneEarly(k, ss) == k >= Len(ss) - 1

\* line 267: enumerate(scenes) is exhausted
LoopDone(k, ss) == k >= Len(ss)

\* lines 269-271: a scene with a description is skipped
PfSkip ==
    /\ pc = "pf_loop"
    /\ ~LoopDone(i, scenes)
    /\ HasDescription(scenes[i + 1])
    /\ i' = i + 1
    /\ UNCHANGED <<restVars, pc, fs, scenes, updates, ret, current, loaded, diskAtCall,
                   lastCall, trace, runs, extVars>>

\* mutant: the update before the scene is processed does not mark it in progress
InProgressUpdateNoMark(ss, k) == [scenes |-> ss, progress |-> Round100(k, Len(ss))]

\* mutant: the update before the scene is processed counts scenes from one
InProgressUpdateOneBased(ss, k) ==
    [processingIndex |-> k + 1, scenes |-> ss, descriptionsComplete |-> FALSE,
     progress |-> Round100(k, Len(ss))]

\* mutant: the update before the scene is processed leaves the run marked complete
InProgressUpdateMarkedComplete(ss, k) ==
    [processingIndex |-> k, scenes |-> ss, descriptionsComplete |-> TRUE,
     progress |-> Round100(k, Len(ss))]

\* keyword arguments of the three update_metadata calls of process_file
InProgressUpdate(ss, k) ==
    [processingIndex |-> k, scenes |-> ss, descriptionsComplete |-> FALSE,
     progress |-> Round100(k, Len(ss))]

\* mutant: the update after a scene is processed writes that scene alone
DescribedUpdateOnlyCurrent(ss, k) ==
    [scenes |-> <<ss[k + 1]>>, progress |-> Round100(k + 1, Len(ss))]

DescribedUpdate(ss, k) == [scenes |-> ss, progress |-> Round100(k + 1, Len(ss))]

\* mutant: the terminal update takes the scene list from the file
CompleteUpdateFresh(ss) ==
    [processingIndex |-> -1, descriptionsComplete |-> TRUE, progress |-> 100,
     scenes |-> GetScenes(fs[line].doc)]

\* mutant: the terminal update recomputes progress from the last loop index
CompleteUpdateStaleProgress(ss) ==
    [processingIndex |-> -1, descriptionsComplete |-> TRUE,
     progress |-> Round100(Len(ss) - 1, Len(ss)), scenes |-> ss]

CompleteUpdate(ss) ==
    [processingIndex |-> -1, descriptionsComplete |-> TRUE, progress |-> 100,
     scenes |-> ss]

\* lines 276-281: call update_metadata before the scene is processed
PfMarkInProgress ==
    /\ pc = "pf_loop"
    /\ ~LoopDone(i, scenes)
    /\ ~HasDescription(scenes[i + 1])
    /\ updates' = InProgressUpdate(scenes, i)
    /\ ret' = "pf_image"
    /\ pc' = "um_read"
    /\ UNCHANGED <<restVars, fs, scenes, i, current, loaded, diskAtCall, lastCall,
                   trace, runs, extVars>>

\* lines 303-308: after the loop, call update_metadata with the terminal values
PfMarkComplete ==
    /\ pc = "pf_loop"
    /\ LoopDone(i, scenes)
    /\ updates' = CompleteUpdate(scenes)
    /\ ret' = "pf_return"
    /\ pc' = "um_read"
    /\ UNCHANGED <<restVars, fs, scenes, i, current, loaded, diskAtCall, lastCall,
                   trace, runs, extVars>>

\* mutant: the call merges into the copy process_file loaded at its start
ReadStale(path) == loaded

\* update_metadata, lines 69-70: what the call merges into
ReadCurrent(path) == fs[path].doc

\* update_metadata, lines 69-70
UmRead ==
    /\ pc = "um_read"
    /\ IF Exists(line) /\ fs[line].kind = "json"
       THEN /\ current' = ReadCurrent(line)
            /\ diskAtCall' = fs[line].doc
            /\ pc' = "um_write"
            /\ runs' = runs
       ELSE /\ runs' = Append(runs, RunRecord("raised", EmptyDoc))
            /\ pc' = AfterProcessFile("raised")
            /\ UNCHANGED <<current, diskAtCall>>
    /\ UNCHANGED <<restVars, fs, scenes, i, updates, ret, loaded, lastCall, trace,
                   extVars>>

\* mutant: the update replaces the document instead of being merged into it
MergeWholesale(cur, upd) == upd

\* update_metadata, line 71
Merge(cur, upd) == Overlay(cur, upd)

\* history: an update_metadata call with its arguments, and a call of
\* describe_image (failed: it caught an exception), each while the loop was at
\* scene k
WriteEvent(k, upd) == [ev |-> "write", idx |-> k, upd |-> upd, failed |-> FALSE]
InferEvent(k, failed) == [ev |-> "infer", idx |-> k, upd |-> EmptyDoc, failed |-> failed]

\* update_metadata, lines 71-74, and the return into process_file
UmWrite ==
    /\ pc = "um_write"
    /\ LET out == Merge(current, updates) IN
          /\ fs' = [fs EXCEPT ![line] = File("json", out)]
          /\ trace' = Append(trace, WriteEvent(i, updates))
          /\ lastCall' = CallRecord(lastCall.n + 1, diskAtCall, updates, out, lastCall.out)
    /\ pc' = ret
    /\ i' = IF ret = "pf_loop" THEN i + 1 ELSE i
    /\ UNCHANGED <<restVars, scenes, updates, ret, current, loaded, diskAtCall, runs,
                   extVars>>

\* mutant: the description is assigned to every scene of the list
SetDescriptionAll(ss, k, d) == [m \in 1..Len(ss) |-> Overlay(ss[m], [description |-> d])]

\* scene['description'] = d
SetDescription(ss, k, d) ==
    [ss EXCEPT ![k + 1] = Overlay(ss[k + 1], [description |-> d])]

\* line 284: scene['screenshotPath'] raises KeyError; main catches it
PfKeyError ==
    /\ pc = "pf_image"
    /\ "screenshotPath" \notin DOMAIN scenes[i + 1]
    /\ runs' = Append(runs, RunRecord("raised", fs[line].doc))
    /\ pc' = AfterProcessFile("raised")
    /\ UNCHANGED <<restVars, fs, scenes, i, updates, ret, current, loaded, diskAtCall,
                   lastCall, trace, extVars>>

\* mutant: a missing image is recorded as a failure of the scene
FallbackError == "Error: image not found"

\* line 289
Fallback == "Scene from video"

\* lines 287-289 and 297-300: no image file, the fixed description is assigned
PfFallback ==
    /\ pc = "pf_image"
    /\ "screenshotPath" \in DOMAIN scenes[i + 1]
    /\ scenes[i + 1]["screenshotPath"] \notin ExistingImages
    /\ scenes' = SetDescription(scenes, i, Fallback)
    /\ updates' = DescribedUpdate(scenes', i)
    /\ ret' = "pf_loop"
    /\ pc' = "um_read"
    /\ UNCHANGED <<restVars, fs, i, current, loaded, diskAtCall, lastCall, trace, runs,
                   extVars>>

\* what happens inside describe_image: the model generates a text (possibly
\* empty after strip), or some call raises an exception with a message
Generated(text) == [raised |-> FALSE, text |-> text]
Failure(msg) == [raised |-> TRUE, text |-> msg]
DescribeOutcomes == {Generated("A cat."), Generated(""), Failure("failed")}

\* mutant: a failed invocation yields no description
describe_image_blank(o) == IF o.raised THEN "" ELSE o.text

\* describe_image, lines 198-243: the text, or "Error: " and the message
describe_image(o) == IF o.raised THEN "Error: " \o o.text ELSE o.text

DescribeResults == {describe_image(o) : o \in DescribeOutcomes}

\* lines 290-300: the model is invoked and its result assigned
PfDescribe ==
    /\ pc = "pf_image"
    /\ "screenshotPath" \in DOMAIN scenes[i + 1]
    /\ scenes[i + 1]["screenshotPath"] \in ExistingImages
    /\ \E o \in DescribeOutcomes :
          /\ scenes' = SetDescription(scenes, i, describe_image(o))
          /\ trace' = Append(trace, InferEvent(i, o.raised))
    /\ updates' = DescribedUpdate(scenes', i)
    /\ ret' = "pf_loop"
    /\ pc' = "um_read"
    /\ UNCHANGED <<restVars, fs, i, current, loaded, diskAtCall, lastCall, runs,
                   extVars>>

\* line 310: process_file returns after the terminal update
PfReturn ==
    /\ pc = "pf_return"
    /\ runs' = Append(runs, RunRecord("complete", fs[line].doc))
    /\ pc' = AfterProcessFile("complete")
    /\ UNCHANGED <<restVars, fs, scenes, i, updates, ret, current, loaded, diskAtCall,
                   lastCall, trace, extVars>>

(* ---------------------------- the other writer ------------------------- *)
PipelinePcs == {"pf_start", "pf_loop", "um_read", "um_write", "pf_image", "pf_return"}

\* The upload side's PATCH endpoint: sets a field the worker never updates,
\* in one step, while a pipeline run is under way.
ExternalWrite ==
    /\ pc \in PipelinePcs
    /\ extCount < extBudget
    /\ fs[MetaPath].kind = "json"
    /\ extCount' = extCount + 1
    /\ extLast' = extCount + 1
    /\ extInside' = (extInside \/ (pc = "um_write" /\ line = MetaPath))
    /\ fs' = [fs EXCEPT ![MetaPath] =
                 File("json", Overlay(fs[MetaPath].doc, [videoTitle |-> extCount + 1]))]
    /\ UNCHANGED <<restVars, pc, pfVars, extBudget>>

(* ---------------------------- specification ---------------------------- *)
Next ==
    \/ LoadTransnet
    \/ LoadVlm
    \/ PrintReady
    \/ ReadLine
    \/ Terminate
    \/ DetectMalformed
    \/ DetectCommand
    \/ DetectReply
    \/ DescribeCommand
    \/ DoneReply
    \/ PfMissing
    \/ PfUnparsable
    \/ PfLoad
    \/ PfSkip
    \/ PfMarkInProgress
    \/ PfMarkComplete
    \/ UmRead
    \/ UmWrite
    \/ PfKeyError
    \/ PfFallback
    \/ PfDescribe
    \/ PfReturn
    \/ ExternalWrite

Spec == Init /\ [][Next]_vars

\* the steps of the worker's single thread: every call it makes returns or
\* raises, so a step that is possible is eventually taken
WorkerStep ==
    \/ LoadTransnet \/ LoadVlm \/ PrintReady \/ ReadLine \/ Terminate
    \/ DetectMalformed \/ DetectCommand \/ DetectReply \/ DescribeCommand \/ DoneReply
    \/ PfMissing \/ PfUnparsable \/ PfLoad \/ PfSkip \/ PfMarkInProgress
    \/ PfMarkComplete \/ UmRead \/ UmWrite \/ PfKeyError \/ PfFallback \/ PfDescribe
    \/ PfReturn

FairSpec == Spec /\ WF_vars(WorkerStep)

(* ---------------------------- another writer of scenes ----------------- *)
\* A writer that changes the scenes field itself while a pipeline run is under
\* way: it marks the first scene of the list on disk as edited, in one step.
\* It counts among the writes of the external process.
ExternalScenesWrite ==
    /\ pc \in PipelinePcs
    /\ extCount < extBudget
    /\ fs[MetaPath].kind = "json"
    /\ GetScenes(fs[MetaPath].doc) # <<>>
    /\ LET ss == fs[MetaPath].doc["scenes"] IN
          fs' = [fs EXCEPT ![MetaPath] =
                    File("json", Overlay(fs[MetaPath].doc,
                        [scenes |-> [ss EXCEPT ![1] = Overlay(ss[1], [edited |-> TRUE])]]))]
    /\ extCount' = extCount + 1
    /\ UNCHANGED <<restVars, pc, pfVars, extBudget, extInside, extLast>>

NextShared == Next \/ ExternalScenesWrite

\* the program with both external writers
SharedScenesSpec == Init /\ [][NextShared]_vars

(* ---------------------------- vocabulary of the claims ----------------- *)
\* the k-th line of stdin as the loop sees it
Cmd(k) == Strip(stdin[k])
IsTerminatorCmd(k) == Cmd(k) = <<>> \/ Cmd(k) = <<"EXIT">>
IsDetectCmd(k) == Len(Cmd(k)) >= 2 /\ SubSeq(Cmd(k), 1, 2) = <<"DETECT", "|">>
FieldCount(k) == Len(Split(Cmd(k)))
IsPathCmd(k) == ~IsTerminatorCmd(k) /\ ~IsDetectCmd(k)

\* position of the first terminator of stdin, Len(stdin) + 1 when there is none
FirstTerminator ==
    LET T == {k \in 1..Len(stdin) : IsTerminatorCmd(k)}
    IN  IF T = {} THEN Len(stdin) + 1 ELSE CHOOSE k \in T : \A m \in T : k <= m

\* the handling of line k has ended
Completed(k) ==
    /\ k \in 1..Len(stdin)
    /\ \/ k < pos - 1
       \/ k = pos - 1 /\ pc \in {"read", "exited", "crashed"}

RepliesTo(k) == {j \in 1..Len(stdout) : answered[j] = k}
EmptyDetectReply == <<"DETECT_DONE|", "[]">>

Described(scene) == "description" \in DOMAIN scene /\ scene["description"] # ""
HasImage(scene) ==
    "screenshotPath" \in DOMAIN scene /\ scene["screenshotPath"] \in ExistingImages
SceneCount(doc) == IF "scenes" \in DOMAIN doc THEN Len(doc["scenes"]) ELSE 0
NoneDescribed(doc) == \A k \in 1..SceneCount(doc) : ~Described(doc["scenes"][k])
AllDescribed(doc) == \A k \in 1..SceneCount(doc) : Described(doc["scenes"][k])

Writes(t) == {j \in 1..Len(t) : t[j].ev = "write"}
Infers(t) == {j \in 1..Len(t) : t[j].ev = "infer"}
InfersOf(t, k) == {j \in Infers(t) : t[j].idx = k - 1}
LastWrite(t) == CHOOSE j \in Writes(t) : \A m \in Writes(t) : m <= j

\* a run that loaded a document (the file existed and parsed)
LoadedRuns == {n \in 1..Len(runs) : runs[n].outcome \in {"complete", "noscenes"}
                                    \/ runs[n].trace # <<>>}

\* of the runs S, the one that ended last, if it is one of them. A record of
\* runs never changes once it is there and is the last one in the states that
\* follow its end, so an invariant about the latest run is one about every run.
Latest(S) == S \cap {Len(runs)}

HasField(doc, key, val) == key \in DOMAIN doc /\ doc[key] = val
WorkerKeys == {"scenes", "processingIndex", "descriptionsComplete", "progress"}
Restrict(doc, keys) == [k \in (DOMAIN doc) \cap keys |-> doc[k]]

(* ---------------------------- C1 --------------------------------------- *)
OverlaidExactly(D, U, out) ==
    /\ DOMAIN out = (DOMAIN D) \cup (DOMAIN U)
    /\ \A k \in DOMAIN U : out[k] = U[k]
    /\ \A k \in (DOMAIN D) \ (DOMAIN U) : out[k] = D[k]

\* C1: every update_metadata call of the worker leaves on disk the document D
\* that was on disk when the call read it, with the keys of the update overlaid
\* and every other key of D unchanged; D is the file as it is then, whatever
\* another writer did to it since the worker's previous call.
C1_UpdateOverlaysDisk ==
    lastCall.n > 0 => OverlaidExactly(lastCall.D, lastCall.upd, lastCall.out)

\* another writer set videoTitle between two successive calls, and the second
\* call kept it
C1_Witness ==
    /\ lastCall.n >= 2
    /\ "videoTitle" \notin DOMAIN lastCall.prev
    /\ HasField(lastCall.D, "videoTitle", 1)
    /\ HasField(lastCall.out, "videoTitle", 1)

(* ---------------------------- C2 --------------------------------------- *)
\* C2: a detection command whose number of pipe-separated fields is not 4 is
\* answered with exactly the line DETECT_DONE|[] and the detector adapter is
\* not invoked for it.
C2_MalformedDetect ==
    \A k \in 1..Len(stdin) :
        (IsDetectCmd(k) /\ FieldCount(k) # 4) =>
            /\ k \notin adapterCalls
            /\ \A j \in RepliesTo(k) : stdout[j] = EmptyDetectReply
            /\ Completed(k) => Cardinality(RepliesTo(k)) = 1

\* a five-field command was answered while the detector was loaded
C2_Witness ==
    \E k \in 1..Len(stdin) :
        /\ IsDetectCmd(k) /\ FieldCount(k) = 5
        /\ Completed(k)
        /\ transnet_model = "model"
        /\ RepliesTo(k) # {}

(* ---------------------------- C3 --------------------------------------- *)
\* C3 as stated: a run over a document with N scenes, none described, makes
\* exactly N invocations of the description model (read of the runs that reach
\* their end; a run ended by an exception makes fewer still).
C3_Original ==
    \A n \in LoadedRuns :
        (NoneDescribed(runs[n].start) /\ runs[n].outcome # "raised") =>
            Cardinality(Infers(runs[n].trace)) = SceneCount(runs[n].start)

\* C3 amended: a run over a document with N scenes, none described, that is
\* not ended by an exception invokes the description model exactly once for
\* every scene whose screenshot file exists and never for another scene, so
\* exactly N times when every screenshot file exists.
C3_OnePerScreenshot ==
    \A n \in LoadedRuns :
        (NoneDescribed(runs[n].start) /\ runs[n].outcome # "raised") =>
            LET ss == GetScenes(runs[n].start) IN
            /\ \A k \in 1..Len(ss) :
                  Cardinality(InfersOf(runs[n].trace, k)) = IF HasImage(ss[k]) THEN 1 ELSE 0
            /\ (\A k \in 1..Len(ss) : HasImage(ss[k])) =>
                  Cardinality(Infers(runs[n].trace)) = Len(ss)

\* a run over two undescribed scenes with screenshots made two invocations
C3_Witness ==
    \E n \in LoadedRuns :
        /\ runs[n].outcome = "complete"
        /\ NoneDescribed(runs[n].start)
        /\ SceneCount(runs[n].start) >= 2
        /\ \A k \in 1..SceneCount(runs[n].start) : HasImage(runs[n].start["scenes"][k])
        /\ Cardinality(Infers(runs[n].trace)) = SceneCount(runs[n].start)

(* ---------------------------- C4 --------------------------------------- *)
Monotone(t) ==
    \A a \in Writes(t), b \in Writes(t) :
        a < b => t[a].upd["progress"] <= t[b].upd["progress"]

EndsTerminal(t) ==
    /\ Writes(t) # {}
    /\ LET u == t[LastWrite(t)].upd IN
          /\ HasField(u, "progress", 100)
          /\ HasField(u, "processingIndex", -1)
          /\ HasField(u, "descriptionsComplete", TRUE)

LeftComplete(n) ==
    /\ Infers(runs[n].trace) = {}
    /\ GetScenes(runs[n].final) = GetScenes(runs[n].start)
    /\ HasField(runs[n].final, "progress", 100)
    /\ HasField(runs[n].final, "descriptionsComplete", TRUE)

\* run n + 1 over the same file left the document run n left: the worker's
\* fields always, the whole document when no other writer wrote in between
SameAsBefore(n) ==
    /\ Restrict(runs[n + 1].final, WorkerKeys) = Restrict(runs[n].final, WorkerKeys)
    /\ runs[n + 1].ext = runs[n].ext => runs[n + 1].final = runs[n].final

\* C5 as stated: a run over a document in which every scene has a description
\* invokes the model zero times, changes no description and leaves progress 100
\* and descriptionsComplete true; a second run yields the same document.
C5_Original ==
    \A n \in LoadedRuns :
        ("scenes" \in DOMAIN runs[n].start /\ AllDescribed(runs[n].start)) =>
            /\ LeftComplete(n)
            /\ (n + 1) \in LoadedRuns => SameAsBefore(n)

\* C5 amended: the same, for a document with at least one scene.
C5_DescribedFileIdempotent ==
    \A n \in LoadedRuns :
        (AllDescribed(runs[n].start) /\ SceneCount(runs[n].start) >= 1) =>
            /\ runs[n].outcome = "complete"
            /\ LeftComplete(n)
            /\ (n + 1) \in LoadedRuns => SameAsBefore(n)

\* two runs over a document whose scenes were all described from the start
C5_Witness ==
    /\ Len(runs) = 2
    /\ LoadedRuns = {1, 2}
    /\ SceneCount(runs[1].start) >= 2
    /\ AllDescribed(runs[1].start)
    /\ "progress" \notin DOMAIN runs[1].start
    /\ runs[2].final = runs[1].final

(* ---------------------------- C6 --------------------------------------- *)
\* C6: the loop emits exactly one reply for every command before the first
\* terminator (a line that is empty or EXIT once stripped), none for the
\* terminator, reads no line after it, and once the loop has ended the output
\* is READY followed by those replies, in order, and nothing else.
C6_OneReplyUntilTerminator ==
    /\ pos - 1 <= FirstTerminator
    /\ \A j \in 1..Len(stdout) : answered[j] < FirstTerminator
    /\ \A k \in 1..Len(stdin) : Cardinality(RepliesTo(k)) <= 1
    /\ \A k \in 1..Len(stdin) :
          (Completed(k) /\ k < FirstTerminator) => Cardinality(RepliesTo(k)) = 1
    /\ pc = "exited" =>
          /\ Len(stdout) = FirstTerminator
          /\ \A j \in 1..Len(stdout) : answered[j] = j - 1

\* a detection command, then EXIT: the loop ended after READY and one reply
C6_Witness ==
    /\ pc = "exited"
    /\ Len(stdin) = 2
    /\ IsDetectCmd(1) /\ FieldCount(1) = 4
    /\ Cmd(2) = <<"EXIT">>
    /\ pos = 3
    /\ Len(stdout) = 2
    /\ SubSeq(stdout[2], 1, 1) = <<"DETECT_DONE|">>

(* ---------------------------- C7 --------------------------------------- *)
ReadyLines == {j \in 1..Len(stdout) : stdout[j] = <<"READY">>}

\* C7: READY is emitted at most once and, once startup is over, exactly once;
\* it is the first line of output, it is there before any line of stdin is read,
\* and it is emitted only with the description model loaded; a failed load of
\* the description model ends the process with no output and no line read.
C7_ReadyOnceAfterLoad ==
    /\ Cardinality(ReadyLines) <= 1
    /\ (stdout # <<>> \/ pos > 1) => (1 \in ReadyLines /\ vlm_model = "model")
    /\ pc \notin {"start", "load_vlm", "print_ready", "crashed"} =>
          Cardinality(ReadyLines) = 1
    /\ (vlm_model = "None" /\ pc \notin {"start", "load_vlm"}) =>
          (pc = "crashed" /\ stdout = <<>> /\ pos = 1)

\* a command was answered after READY
C7_Witness ==
    /\ pc = "exited"
    /\ Len(stdout) >= 2
    /\ ReadyLines = {1}
    /\ pos > 1

(* ---------------------------- C8 --------------------------------------- *)
\* C8: every line that is not a terminator and not a detection command is
\* answered with exactly one line, DONE: followed by the stripped line, whether
\* process_file completed, found no file, or raised.
C8_DoneReplyAlways ==
    \A k \in 1..Len(stdin) :
        (IsPathCmd(k) /\ Completed(k) /\ k < FirstTerminator) =>
            /\ Cardinality(RepliesTo(k)) = 1
            /\ \A j \in RepliesTo(k) : stdout[j] = <<"DONE:">> \o Cmd(k)

\* one command raised in process_file, another found no file; both were answered
C8_Witness ==
    /\ pc = "read"
    /\ \E n \in 1..Len(runs) : runs[n].outcome = "raised"
    /\ \E n \in 1..Len(runs) : runs[n].outcome = "missing"
    /\ Len(stdout) = 3

(* ---------------------------- C9 --------------------------------------- *)
UnopenableDetect(k) ==
    /\ IsDetectCmd(k)
    /\ FieldCount(k) = 4
    /\ Split(Cmd(k))[2] \notin OpenableVideos

\* C9: a well-formed detection command for a video that cannot be opened gets
\* the empty scene list: the reply is DETECT_DONE|[], the process does not end
\* on an exception, and the loop is back at reading the next line.
C9_UnopenableVideoEmpty ==
    \A k \in 1..Len(stdin) :
        UnopenableDetect(k) =>
            /\ (k = pos - 1 /\ pc = "detect_reply") => result = <<>>
            /\ (k = pos - 1) => pc \in {"dispatch", "detect_reply", "read", "exited"}
            /\ \A j \in RepliesTo(k) : stdout[j] = EmptyDetectReply
            /\ (Completed(k) /\ k < FirstTerminator) => Cardinality(RepliesTo(k)) = 1

\* the adapter ran for an unopenable video, the reply was written and the next
\* line has been read
C9_Witness ==
    \E k \in adapterCalls :
        /\ UnopenableDetect(k)
        /\ RepliesTo(k) # {}
        /\ pos - 1 > k

InFlight == {k \in 1..(pos - 1) : ~IsTerminatorCmd(k) /\ RepliesTo(k) = {}}

\* C11: the loop is strictly sequential: a reply is only ever for a line already
\* read, every line before the last one read has its reply, the replies are in
\* the order of their commands, and at most one command (the last one read) is
\* without its reply, never while the loop is at reading the next line.
C11_StrictlySequential ==
    /\ \A j \in 1..Len(stdout) : answered[j] <= pos - 1
    /\ \A k \in 1..(pos - 2) : RepliesTo(k) # {}
    /\ \A a \in 1..Len(stdout), b \in 1..Len(stdout) : a < b => answered[a] < answered[b]
    /\ Cardinality(InFlight) <= 1
    /\ InFlight \subseteq {pos - 1}
    /\ pc \in {"read", "exited"} => InFlight = {}

\* a detection command and a description command, answered in that order
C11_Witness ==
    /\ pc = "read"
    /\ Len(stdin) = 2 /\ pos = 3
    /\ IsDetectCmd(1) /\ IsPathCmd(2)
    /\ RepliesTo(1) = {2} /\ RepliesTo(2) = {3}
    /\ SubSeq(stdout[2], 1, 1) = <<"DETECT_DONE|">>
    /\ SubSeq(stdout[3], 1, 1) = <<"DONE:">>

(* ---------------------------- C12 -------------------------------------- *)
\* event a of t is the written update that marks scene k (0-based) in progress
MarksInProgress(t, a, k) ==
    /\ t[a].ev = "write"
    /\ HasField(t[a].upd, "processingIndex", k)
    /\ HasField(t[a].upd, "descriptionsComplete", FALSE)

\* event c of t is the written update that follows the processing of scene k
\* and carries its description
CarriesDescription(t, c, k) ==
    /\ t[c].ev = "write"
    /\ "processingIndex" \notin DOMAIN t[c].upd
    /\ "description" \in DOMAIN t[c].upd["scenes"][k + 1]

InvokedBetweenUpdates(t) ==
    \A j \in Infers(t) :
        LET k == t[j].idx IN
        /\ \E a \in 1..(j - 1) : MarksInProgress(t, a, k)
        /\ \A b \in (j + 1)..Len(t) :
              (\E m \in (k + 1)..MaxScenes + 1 : MarksInProgress(t, b, m)) =>
                  \E c \in (j + 1)..(b - 1) : CarriesDescription(t, c, k)

\* C12: in every run, before the description model is invoked for scene i the
\* update with processingIndex i and descriptionsComplete false has been
\* written, and the update carrying scene i's description is written after the
\* invocation and before the in-progress update of any later scene; a run that
\* reaches its end has written it for every scene it invoked the model for.
C12_InProgressBeforeInference ==
    /\ InvokedBetweenUpdates(trace)
    /\ \A n \in Latest(LoadedRuns) :
          /\ InvokedBetweenUpdates(runs[n].trace)
          /\ runs[n].outcome = "complete" =>
                \A j \in Infers(runs[n].trace) :
                    \E c \in (j + 1)..Len(runs[n].trace) :
                        CarriesDescription(runs[n].trace, c, runs[n].trace[j].idx)

\* a finished run that invoked the model for two scenes, one after the other
C12_Witness ==
    \E n \in 1..Len(runs) :
        LET t == runs[n].trace IN
        /\ runs[n].outcome = "complete"
        /\ Len(t) = 7
        /\ MarksInProgress(t, 1, 0) /\ t[2].ev = "infer" /\ CarriesDescription(t, 3, 0)
        /\ MarksInProgress(t, 4, 1) /\ t[5].ev = "infer" /\ CarriesDescription(t, 6, 1)

(* ---------------------------- C13 -------------------------------------- *)
MissingImage(scene) == "screenshotPath" \in DOMAIN scene /\ ~HasImage(scene)
LacksPath(scene) == "screenshotPath" \notin DOMAIN scene

\* scenes (1-based) of doc that a run has to fall back for
FallbackScenes(doc) ==
    {k \in 1..SceneCount(doc) :
        ~Described(doc["scenes"][k]) /\ MissingImage(doc["scenes"][k])}

\* in the events t of a run over start, no invocation is for a scene without
\* image file, and the update after its in-progress mark carries the fallback
FallsBack(start, t) ==
    \A k \in FallbackScenes(start) :
        /\ InfersOf(t, k) = {}
        /\ \A a \in 1..(Len(t) - 1) :
              MarksInProgress(t, a, k - 1) =>
                  /\ CarriesDescription(t, a + 1, k - 1)
                  /\ t[a + 1].upd["scenes"][k]["description"] = "Scene from video"

\* C13: a scene without description whose screenshot file is missing gets the
\* description "Scene from video" and the model is not invoked for it; the run
\* does not end at that scene but goes on to the next one, and it reaches the
\* terminal update, which carries the fallback, unless a scene raises (a record
\* without screenshotPath).
C13_FallbackWithoutInvocation ==
    /\ FallsBack(loaded, trace)
    /\ \A n \in Latest(LoadedRuns) :
          LET t == runs[n].trace
              start == runs[n].start IN
          /\ FallsBack(start, t)
          /\ \A k \in FallbackScenes(start) :
                /\ \A a \in 1..Len(t) : MarksInProgress(t, a, k - 1) => a + 1 < Len(t)
                /\ (\A m \in 1..SceneCount(start) :
                       Described(start["scenes"][m]) \/ ~LacksPath(start["scenes"][m])) =>
                      /\ runs[n].outcome = "complete"
                      /\ EndsTerminal(t)
                      /\ t[LastWrite(t)].upd["scenes"][k]["description"] = "Scene from video"

\* a finished run fell back for its first scene and invoked the model for the
\* second
C13_Witness ==
    \E n \in LoadedRuns :
        /\ runs[n].outcome = "complete"
        /\ FallbackScenes(runs[n].start) = {1}
        /\ InfersOf(runs[n].trace, 2) # {}
        /\ EndsTerminal(runs[n].trace)
        /\ HasField(runs[n].final["scenes"][1], "description", "Scene from video")

(* ---------------------------- C14 -------------------------------------- *)
\* scenes (1-based) of doc that have a description
DescribedScenes(doc) == {k \in 1..SceneCount(doc) : Described(doc["scenes"][k])}

\* in the events t of a run over start, no invocation is for a scene described
\* at the start, and every update written carries that scene's description
ResumesOver(start, t) ==
    \A k \in DescribedScenes(start) :
        /\ InfersOf(t, k) = {}
        /\ \A a \in Writes(t) :
              t[a].upd["scenes"][k]["description"] = start["scenes"][k]["description"]

\* C14: a run invokes the description model only for scenes that had no
\* description when the run loaded the file, and every scene that had one
\* holds exactly that description in every document the run writes and in the
\* document the run leaves behind.
C14_ResumesPartialFile ==
    /\ ResumesOver(loaded, trace)
    /\ \A n \in Latest(LoadedRuns) :
          /\ ResumesOver(runs[n].start, runs[n].trace)
          /\ \A k \in DescribedScenes(runs[n].start) :
                /\ SceneCount(runs[n].final) = SceneCount(runs[n].start)
                /\ runs[n].final["scenes"][k]["description"] =
                       runs[n].start["scenes"][k]["description"]

\* a finished run over a file whose first scene was described and whose second
\* was not: one invocation, for the second scene, the first description kept
C14_Witness ==
    \E n \in LoadedRuns :
        /\ runs[n].outcome = "complete"
        /\ SceneCount(runs[n].start) = 2
        /\ DescribedScenes(runs[n].start) = {1}
        /\ Cardinality(Infers(runs[n].trace)) = 1
        /\ InfersOf(runs[n].trace, 2) # {}
        /\ runs[n].final["scenes"][1]["description"] = "old"
        /\ Described(runs[n].final["scenes"][2])

(* ---------------------------- C15 -------------------------------------- *)
\* the number of description commands among the first k lines
PathIndex(k) == Cardinality({m \in 1..k : IsPathCmd(m)})

\* the handling of line k has ended and it failed: a malformed detection
\* command, an exception in the detector adapter, a metadata file that is
\* missing, or an exception in process_file (an unparsable file, a KeyError)
Failed(k) ==
    /\ Completed(k)
    /\ k < FirstTerminator
    /\ \/ IsDetectCmd(k) /\ FieldCount(k) # 4
       \/ k \in adapterRaised
       \/ /\ IsPathCmd(k)
          /\ PathIndex(k) <= Len(runs)
          /\ runs[PathIndex(k)].outcome \in {"missing", "raised"}

\* the loop has ended at the terminator or the end of the input with every
\* command from k on that precedes the terminator answered
AnsweredFrom(k) ==
    /\ pc = "exited"
    /\ pos - 1 = IF FirstTerminator <= Len(stdin) THEN FirstTerminator ELSE Len(stdin)
    /\ \A m \in k..(FirstTerminator - 1) : Cardinality(RepliesTo(m)) = 1

\* a failed command is answered and leaves the loop at the read of the next
\* line; after READY the process never ends on an exception, and the loop ends
\* only at the terminator or at the end of the input
StaysReady ==
    /\ \A k \in 1..Len(stdin) :
          Failed(k) =>
              /\ Cardinality(RepliesTo(k)) = 1
              /\ k = pos - 1 => (pc = "read" \/ (pc = "exited" /\ k = Len(stdin)))
    /\ stdout # <<>> => pc # "crashed"
    /\ pc = "exited" => AnsweredFrom(1)

\* C15: after any command has failed (malformed detection command, exception
\* in detection, missing or unparsable metadata file, exception in the
\* pipeline) the loop is back at reading the next line, and every later
\* command that precedes the terminator is eventually read and answered
\* before the loop ends.
C15_LoopStaysReady ==
    /\ []StaysReady
    /\ (\E k \in 1..Len(stdin) : Failed(k)) ~> AnsweredFrom(1)

\* a description command failed, the command after it was a well-formed
\* detection command, and it was answered
C15_Witness ==
    /\ pc = "exited"
    /\ Len(stdin) = 2
    /\ Failed(1) /\ IsPathCmd(1)
    /\ IsDetectCmd(2) /\ FieldCount(2) = 4
    /\ RepliesTo(2) = {3}

(* ---------------------------- C16 -------------------------------------- *)
WellFormedDetect(k) == IsDetectCmd(k) /\ FieldCount(k) = 4

\* C16: when startup has left the detector unloaded (not configured, or the
\* load returned nothing), the adapter is never invoked and the detector is
\* never loaded again (at most the one attempt of startup); every well-formed
\* detection command before the terminator is answered with exactly
\* DETECT_DONE|[], and every description command before it is answered with
\* its DONE: line.
C16_DetectorUnavailableForGood ==
    (pc # "start" /\ transnet_model = "None") =>
        /\ adapterCalls = {}
        /\ transnetLoads = IF SCENE_DETECTOR = "transnetv2" THEN 1 ELSE 0
        /\ pc = "detect_reply" => result = <<>>
        /\ \A k \in 1..Len(stdin) :
              /\ WellFormedDetect(k) =>
                    /\ \A j \in RepliesTo(k) : stdout[j] = EmptyDetectReply
                    /\ (Completed(k) /\ k < FirstTerminator) =>
                          Cardinality(RepliesTo(k)) = 1
              /\ (IsPathCmd(k) /\ Completed(k) /\ k < FirstTerminator) =>
                    \E j \in RepliesTo(k) : stdout[j] = <<"DONE:">> \o Cmd(k)

\* the detector was configured and its load returned nothing; a detection
\* command for a video that opens got the empty list, and the description
\* command after it was served
C16_Witness ==
    /\ pc = "exited"
    /\ SCENE_DETECTOR = "transnetv2" /\ transnet_model = "None" /\ transnetLoads = 1
    /\ Len(stdin) = 2
    /\ WellFormedDetect(1) /\ Split(Cmd(1))[2] \in OpenableVideos
    /\ stdout[2] = EmptyDetectReply
    /\ IsPathCmd(2)
    /\ Len(stdout) = 3 /\ stdout[3] = <<"DONE:">> \o Cmd(2)

(* ---------------------------- C17 -------------------------------------- *)
WithoutDescription(scene) == [f \in (DOMAIN scene) \ {"description"} |-> scene[f]]
DescriptionOf(scene) ==
    IF "description" \in DOMAIN scene THEN <<scene["description"]>> ELSE <<>>

\* the scene list of start followed by the scene lists of the updates written
SceneVersions(start, t) ==
    LET W == SelectSeq(t, LAMBDA e : e.ev = "write")
    IN  <<GetScenes(start)>> \o [a \in 1..Len(W) |-> W[a].upd["scenes"]]

\* the versions after which the description of scene k is another one
Assignments(V, k) ==
    {a \in 1..(Len(V) - 1) : DescriptionOf(V[a][k]) # DescriptionOf(V[a + 1][k])}

PreservesScenes(start, t) ==
    LET ss == GetScenes(start) IN
    /\ \A a \in Writes(t) :
          /\ Len(t[a].upd["scenes"]) = Len(ss)
          /\ \A k \in 1..Len(ss) :
                WithoutDescription(t[a].upd["scenes"][k]) = WithoutDescription(ss[k])
    /\ \A k \in 1..Len(ss) :
          /\ Cardinality(InfersOf(t, k)) <= 1
          /\ Described(ss[k]) => InfersOf(t, k) = {}
          /\ \A a \in Writes(t) :
                LET d == DescriptionOf(t[a].upd["scenes"][k]) IN
                \/ d = DescriptionOf(ss[k])
                \/ /\ ~Described(ss[k])
                   /\ \A b \in Writes(t) :
                         a < b => DescriptionOf(t[b].upd["scenes"][k]) = d

\* C17: every update a run writes carries a scene list with the length and the
\* order of the list loaded at the start of the run, each scene the same but
\* for its description; within one run the description of a scene is assigned
\* at most once (once it is another one than at the start it stays as it is),
\* and never when the scene had a description at the start; the document the
\* run leaves has the scene list of its last update. (loaded and trace are
\* the document and the events of a run while it is under way and when it has
\* ended, so every run is covered.)
C17_ScenesPreserved ==
    /\ PreservesScenes(loaded, trace)
    /\ \A n \in Latest(LoadedRuns) :
          GetScenes(runs[n].final) =
              IF Writes(runs[n].trace) = {} THEN GetScenes(runs[n].start)
              ELSE runs[n].trace[LastWrite(runs[n].trace)].upd["scenes"]

\* a finished run over two scenes without description: both got one, by one
\* assignment each, and the list is otherwise as it was
C17_Witness ==
    \E n \in LoadedRuns :
        LET V == SceneVersions(runs[n].start, runs[n].trace) IN
        /\ runs[n].outcome = "complete"
        /\ Len(V[1]) = 2
        /\ NoneDescribed(runs[n].start)
        /\ Cardinality(Assignments(V, 1)) = 1 /\ Cardinality(Assignments(V, 2)) = 1
        /\ Len(runs[n].final["scenes"]) = 2

(* ---------------------------- C18 -------------------------------------- *)
\* descriptionsComplete is true in doc only with processingIndex -1, progress
\* 100 and a description field in every scene; progress is an integer of 0..100
ConsistentProgress(doc) ==
    /\ "progress" \in DOMAIN doc
    /\ doc["progress"] \in 0..100
    /\ HasField(doc, "descriptionsComplete", TRUE) =>
          /\ HasField(doc, "processingIndex", -1)
          /\ HasField(doc, "progress", 100)
          /\ \A k \in 1..SceneCount(doc) : "description" \in DOMAIN doc["scenes"][k]

\* C18: with the worker as the only writer, every document an update of the
\* pipeline writes has descriptionsComplete true only together with
\* processingIndex -1, progress 100 and a description field in every scene,
\* and its progress is an integer between 0 and 100; the file holds that
\* document until the next update.
C18_WrittenStatesConsistent ==
    (extCount = 0 /\ lastCall.n > 0) =>
        /\ ConsistentProgress(lastCall.out)
        /\ fs[MetaPath].doc = lastCall.out

\* the terminal update of a run over two scenes, written over a document that
\* was half way
C18_Witness ==
    /\ extCount = 0
    /\ lastCall.n > 0
    /\ SceneCount(lastCall.out) = 2
    /\ HasField(lastCall.out, "descriptionsComplete", TRUE)
    /\ HasField(lastCall.D, "descriptionsComplete", FALSE)
    /\ HasField(lastCall.D, "processingIndex", 1)
    /\ HasField(lastCall.D, "progress", 100)

(* ---------------------------- C19 -------------------------------------- *)
\* process_file is about to run on a path with no file, or on a file without
\* scenes (the list is empty or the key is absent)
NothingToDescribe ==
    /\ pc = "pf_start"
    /\ \/ line \notin DOMAIN fs
       \/ fs[line].kind = "json" /\ SceneCount(fs[line].doc) = 0

\* runs that found no file or no scene
IdleRuns == {n \in 1..Len(runs) : runs[n].outcome \in {"missing", "noscenes"}}

\* the worker's step from there writes nothing and goes to the reply (the
\* other steps from there are writes of the other process)
WritesNothing ==
    (NothingToDescribe /\ extCount' = extCount) =>
        /\ fs' = fs
        /\ lastCall' = lastCall
        /\ pc' = "done_reply"
        /\ Len(runs') = Len(runs) + 1 /\ Len(runs') \in IdleRuns'

\* such a run made no update and left the document it found, without the
\* terminal values if they were not there; its command got the DONE: reply
IdleRunsAnswered ==
    /\ \A n \in IdleRuns :
          /\ runs[n].trace = <<>>
          /\ runs[n].final = runs[n].start
    /\ \A k \in 1..Len(stdin) :
          (IsPathCmd(k) /\ Completed(k) /\ k < FirstTerminator
              /\ PathIndex(k) \in IdleRuns) =>
              \E j \in RepliesTo(k) : stdout[j] = <<"DONE:">> \o Cmd(k)

\* C19: when the metadata file does not exist, or its scenes list is empty or
\* absent, process_file writes nothing: the file is as it was (no terminal
\* descriptionsComplete, processingIndex or progress is set), and the DONE:
\* reply for the path is still emitted.
C19_NoWriteWithoutScenes ==
    /\ [][WritesNothing]_vars
    /\ []IdleRunsAnswered

\* a file with an empty scenes list was submitted: the reply is out and the
\* file has none of the progress fields
C19_Witness ==
    /\ pc = "read"
    /\ Len(runs) = 1 /\ runs[1].outcome = "noscenes"
    /\ HasField(runs[1].start, "scenes", <<>>)
    /\ stdout = <<Ready, <<"DONE:">> \o Cmd(1)>>
    /\ DOMAIN fs[MetaPath].doc = {"uploadId", "scenes"}

(* ---------------------------- C20 -------------------------------------- *)
\* runs ended by an exception inside the loop over the scenes
AbortedRuns == {n \in 1..Len(runs) : runs[n].outcome = "raised" /\ runs[n].trace # <<>>}

\* the scene (0-based) at which the loop of run n was when it ended: the first
\* scene of the loaded list that has no description and no screenshotPath
AbortScene(n) ==
    LET ss == GetScenes(runs[n].start)
        B == {k \in 1..Len(ss) : ~Described(ss[k]) /\ LacksPath(ss[k])}
    IN  (CHOOSE k \in B : \A m \in B : k <= m) - 1

\* scenes (1-based) that run n assigned a description before it ended
DescribedInRun(n) ==
    LET V == SceneVersions(runs[n].start, runs[n].trace)
    IN  {k \in 1..Len(V[1]) : Assignments(V, k) # {}}

LeftInProgress(n) ==
    LET t == runs[n].trace
        doc == runs[n].final IN
    /\ \A a \in Writes(t) : ~HasField(t[a].upd, "descriptionsComplete", TRUE)
    /\ HasField(doc, "processingIndex", AbortScene(n))
    /\ HasField(doc, "descriptionsComplete", FALSE)
    /\ \A k \in DescribedInRun(n) :
          /\ k < AbortScene(n) + 1
          /\ "description" \in DOMAIN doc["scenes"][k]
          /\ doc["scenes"][k] = t[LastWrite(t)].upd["scenes"][k]

\* C20: a run ended by an exception at scene i (a record without
\* screenshotPath) wrote no terminal update; the file it leaves has
\* processingIndex i and descriptionsComplete false and holds the description
\* of every scene described earlier in the run; the file stays so when the
\* run is over, and the command is answered with its DONE: line.
C20_AbortLeavesInProgress ==
    /\ \A n \in Latest(AbortedRuns) : LeftInProgress(n)
    /\ (pc \in {"done_reply", "read", "exited"} /\ Len(runs) \in AbortedRuns) =>
          fs[MetaPath].doc = runs[Len(runs)].final
    /\ \A k \in 1..Len(stdin) :
          (IsPathCmd(k) /\ Completed(k) /\ k < FirstTerminator
              /\ PathIndex(k) \in AbortedRuns) =>
              \E j \in RepliesTo(k) : stdout[j] = <<"DONE:">> \o Cmd(k)

\* a run described its first scene and was ended by the second, which has no
\* screenshotPath; the reply is out
C20_Witness ==
    /\ pc = "read"
    /\ Len(runs) = 1 /\ 1 \in AbortedRuns
    /\ AbortScene(1) = 1
    /\ DescribedInRun(1) = {1}
    /\ HasField(fs[MetaPath].doc, "processingIndex", 1)
    /\ HasField(fs[MetaPath].doc, "descriptionsComplete", FALSE)
    /\ "description" \in DOMAIN fs[MetaPath].doc["scenes"][1]
    /\ stdout = <<Ready, <<"DONE:">> \o Cmd(1)>>

(* ---------------------------- C21 -------------------------------------- *)
StartsWithError(d) == Len(d) >= 6 /\ SubSeq(d, 1, 6) = "Error:"

\* scenes (1-based) for which an invocation of t failed
FailedScenes(t) == {t[j].idx + 1 : j \in {m \in Infers(t) : t[m].failed}}

\* every update written after the failed invocation for a scene carries, as
\* that scene's description, a text that starts with Error: (and is not empty,
\* so the scene counts as described)
StoresError(t) ==
    \A j \in Infers(t) :
        t[j].failed =>
            \A a \in Writes(t) :
                a > j =>
                    LET scene == t[a].upd["scenes"][t[j].idx + 1] IN
                    /\ Described(scene)
                    /\ StartsWithError(scene["description"])

\* a run is under way: it has loaded its document and not yet ended
RunUnderWay == pc \in {"pf_loop", "um_read", "um_write", "pf_image", "pf_return"}

\* C21: a failed invocation of the description model is stored as the scene's
\* description, a text starting with Error:, and the scene counts as described;
\* the run goes on and, unless a scene raises (a record without screenshotPath),
\* ends with descriptionsComplete true; no later run invokes the model for
\* that scene, and it keeps the stored text.
C21_FailureStoredNotRetried ==
    /\ StoresError(trace)
    /\ \A n \in Latest(LoadedRuns) :
          LET t == runs[n].trace
              start == runs[n].start IN
          /\ \A k \in FailedScenes(t) :
                /\ Described(runs[n].final["scenes"][k])
                /\ StartsWithError(runs[n].final["scenes"][k]["description"])
          /\ (FailedScenes(t) # {} /\ \A m \in 1..SceneCount(start) :
                  Described(start["scenes"][m]) \/ ~LacksPath(start["scenes"][m])) =>
                /\ runs[n].outcome = "complete"
                /\ EndsTerminal(t)
                /\ HasField(runs[n].final, "descriptionsComplete", TRUE)
          /\ \A m \in LoadedRuns :
                m < n =>
                    \A k \in FailedScenes(runs[m].trace) :
                        /\ InfersOf(t, k) = {}
                        /\ runs[n].final["scenes"][k]["description"] =
                               runs[m].final["scenes"][k]["description"]
    /\ RunUnderWay =>
          \A m \in LoadedRuns :
              \A k \in FailedScenes(runs[m].trace) : InfersOf(trace, k) = {}

\* the invocation for the first scene failed in the first run, which ended
\* complete; the second run made no invocation and the text is still there
C21_Witness ==
    /\ Len(runs) = 2
    /\ runs[1].outcome = "complete" /\ runs[2].outcome = "complete"
    /\ FailedScenes(runs[1].trace) = {1}
    /\ Infers(runs[2].trace) = {}
    /\ runs[2].final["scenes"][1]["description"] = "Error: failed"
    /\ HasField(runs[2].final, "descriptionsComplete", TRUE)

(* ---------------------------- C22 -------------------------------------- *)
Edited(scene) == "edited" \in DOMAIN scene
EditedScenes(doc) == {k \in 1..SceneCount(doc) : Edited(doc["scenes"][k])}

\* every update written in the run carries the loaded list: the same length
\* and order, each scene as loaded but for its description
WritesLoadedList(start, t) ==
    \A a \in Writes(t) :
        /\ Len(t[a].upd["scenes"]) = SceneCount(start)
        /\ \A k \in 1..SceneCount(start) :
              WithoutDescription(t[a].upd["scenes"][k]) =
                  WithoutDescription(start["scenes"][k])

\* C22: every update of a run writes the scene list the run loaded at its
\* start, with the descriptions assigned since; the file then holds that list
\* whatever list was on disk when the update read the file, so a change another
\* writer made to scenes after the load is gone from the file after the
\* worker's next update.
C22_StaleScenesOverwrite ==
    /\ WritesLoadedList(loaded, trace)
    /\ lastCall.n > 0 =>
          /\ lastCall.out["scenes"] = lastCall.upd["scenes"]
          /\ (RunUnderWay /\ trace # <<>>) =>
                EditedScenes(lastCall.out) = EditedScenes(loaded)

\* the other writer marked a scene as edited after the run had loaded the file;
\* the worker's next update read the file with the mark and wrote it without
C22_Witness ==
    /\ RunUnderWay /\ trace # <<>>
    /\ EditedScenes(loaded) = {}
    /\ EditedScenes(lastCall.D) # {}
    /\ EditedScenes(lastCall.out) = {}
    /\ EditedScenes(fs[MetaPath].doc) = {}

====
